---- MODULE Spec2Model ----
(***************************************************************************)
(* gDocsFS: a FUSE filesystem (src/gdocsfs.py, class GDocsFS) whose file   *)
(* contents live in Google Docs documents (src/gdoc.py).                   *)
(*                                                                         *)
(* A path is the sequence of its components: "/a/b" is <<"a","b">> and "/" *)
(* is <<>>.  The nested dicts of GDocsFS.files are a map from the paths of *)
(* the nodes that exist to their attribute dicts; a node's 'subdirs' dict  *)
(* is the set of the paths one component longer.  A text is the sequence   *)
(* of its characters.  A Google document is the text of its one paragraph, *)
(* which always ends with a newline the API does not let a client delete.  *)
(***************************************************************************)
EXTENDS Integers, Sequences, FiniteSets, TLC

VARIABLES
    files,      \* GDocsFS.files: path -> [kind, nlink, size, subdirs]
    path_dids,  \* GDocsFS.path_dids: path -> document id
    fd_dids,    \* GDocsFS.fd_dids: file descriptor -> document id or None
    data,       \* GDocsFS.data: symlink path -> source
    fd,         \* GDocsFS.fd: the last file descriptor handed out
    docs,       \* the backend: id of a live document -> its text
    deleted,    \* the backend: ids of the documents deleted so far
    ndocs,      \* the backend: number of documents created so far
    last,       \* the call that was made last, with its arguments and outcome
    calls,      \* number of calls made so far
    writers     \* the write_doc calls of concurrent clients, by client

vars ==
    <<files, path_dids, fd_dids, data, fd, docs, deleted, ndocs, last, calls,
      writers>>

(***************************************************************************)
(* Bounds of the model.                                                    *)
(***************************************************************************)
MaxDepth == 2       \* longest path, in components
MaxCalls == 4       \* calls in a run of the filesystem
MaxLen == 4         \* longest byte content of a document
MaxBuf == 2         \* longest buffer given to a write
MaxOff == 3         \* largest offset / length argument
MaxWraps == 2       \* line breaks the backend puts into a text

Names == {"a", "b"}
ByteVals == {0, 255}
None == -1
NL == "\n"

\* dict[k] = v
Put(m, k, v) == [x \in (DOMAIN m) \cup {k} |-> IF x = k THEN v ELSE m[x]]

\* dict.pop(k)
Pop(m, k) == [x \in (DOMAIN m) \ {k} |-> m[x]]

Min(a, b) == IF a < b THEN a ELSE b
Max(a, b) == IF a > b THEN a ELSE b

SeqsUpTo(S, n) == UNION {[1..k -> S] : k \in 0..n}

Paths == SeqsUpTo(Names, MaxDepth) \ {<<>>}
Bufs == SeqsUpTo(ByteVals, MaxBuf)
Root == <<>>

(***************************************************************************)
(* Python helpers.                                                         *)
(***************************************************************************)
\* s[a:b] for 0 <= a, 0 <= b
slice(s, a, b) == SubSeq(s, a + 1, Min(b, Len(s)))

\* s[a:]
slice_from(s, a) == SubSeq(s, a + 1, Len(s))

Digits == <<"0", "1", "2", "3", "4", "5", "6", "7", "8", "9">>

\* str.isdigit() of one character
IsDigitChar(c) == \E i \in 1..Len(Digits) : Digits[i] = c

DigitVal(c) == (CHOOSE i \in 1..Len(Digits) : Digits[i] = c) - 1

\* Mutant of str: zero has no digits.
RECURSIVE str_no_zero(_)
str_no_zero(b) ==
    IF b = 0 THEN <<>>
    ELSE str_no_zero(b \div 10) \o <<Digits[(b % 10) + 1]>>

\* str(b) of a non-negative integer: its decimal digits
RECURSIVE str(_)
str(b) ==
    IF b < 10 THEN <<Digits[b + 1]>>
    ELSE str(b \div 10) \o <<Digits[(b % 10) + 1]>>

\* string.split(sep): the pieces between the separators, empty ones included
RECURSIVE split(_, _)
split(s, sep) ==
    IF \A i \in 1..Len(s) : s[i] # sep THEN <<s>>
    ELSE LET k == CHOOSE i \in 1..Len(s) :
                      s[i] = sep /\ \A j \in 1..(i - 1) : s[j] # sep
         IN  <<SubSeq(s, 1, k - 1)>> \o split(SubSeq(s, k + 1, Len(s)), sep)

\* s.isdigit(): non-empty and all digits
isdigit(s) == s # <<>> /\ \A i \in 1..Len(s) : IsDigitChar(s[i])

\* int(s) of a digit string
RECURSIVE int(_)
int(s) ==
    IF Len(s) = 1 THEN DigitVal(s[1])
    ELSE 10 * int(SubSeq(s, 1, Len(s) - 1)) + DigitVal(s[Len(s)])

\* bytes.ljust(width, fill)
RECURSIVE ljust(_, _, _)
ljust(s, width, fill) ==
    IF Len(s) >= width THEN s ELSE ljust(s \o <<fill>>, width, fill)

(***************************************************************************)
(* gdoc.py: the codec.                                                     *)
(***************************************************************************)
WRITE_OFFSET == 1

RECURSIVE bytes_to_string(_)
bytes_to_string(byte_seq) ==
    IF byte_seq = <<>> THEN <<>>
    ELSE str(Head(byte_seq)) \o <<",">> \o bytes_to_string(Tail(byte_seq))

\* The integers string_to_bytes hands to bytes()
string_to_ints(string) ==
    LET kept == SelectSeq(split(string, ","), isdigit)
    IN  [i \in 1..Len(kept) |-> int(kept[i])]

\* bytes(...) raises ValueError unless every value is in range(256)
bytes_ok(ints) == \A i \in 1..Len(ints) : ints[i] \in 0..255

string_to_bytes(string) == string_to_ints(string)

(***************************************************************************)
(* The Docs / Drive backend as gdoc.py uses it.                            *)
(***************************************************************************)
\* The text of a document that was just created: the empty paragraph.
BlankDoc == <<NL>>

\* Mutant of deleteContentRange: everything from startIndex up to the final
\* newline goes, whatever endIndex is.
deleteContentRange_to_end(text, startIndex, endIndex) ==
    SubSeq(text, 1, startIndex - 1) \o SubSeq(text, Len(text), Len(text))

\* deleteContentRange {startIndex, endIndex}: the paragraph's text starts at
\* document index 1, so the character at index i is text[i].
deleteContentRange(text, startIndex, endIndex) ==
    SubSeq(text, 1, startIndex - 1) \o SubSeq(text, endIndex, Len(text))

\* insertText {location.index, text}
insertText(text, index, new) ==
    SubSeq(text, 1, index - 1) \o new \o SubSeq(text, index, Len(text))

applyRequest(text, req) ==
    IF req.kind = "deleteContentRange"
    THEN deleteContentRange(text, req.startIndex, req.endIndex)
    ELSE insertText(text, req.index, req.text)

\* documents().batchUpdate: the requests in order, as one edit
RECURSIVE batchUpdate(_, _)
batchUpdate(text, requests) ==
    IF requests = <<>> THEN text
    ELSE batchUpdate(applyRequest(text, Head(requests)), Tail(requests))

(***************************************************************************)
(* gdoc.py: reading and writing.  A state st is the record of the program  *)
(* variables; every function returns the state it leaves and its outcome.  *)
(***************************************************************************)
State == [files |-> files, path_dids |-> path_dids, fd_dids |-> fd_dids,
          data |-> data, fd |-> fd, docs |-> docs, deleted |-> deleted,
          ndocs |-> ndocs]

\* A call ends by raising (ret names the exception) or returning (ret is
\* "ok"): val is a returned number, out returned bytes, obj a returned
\* object.  edits are the batchUpdate calls it made on the backend, each the
\* sequence of its requests.
Ret(st, ret, val) ==
    [st |-> st, ret |-> ret, val |-> val, out |-> <<>>, obj |-> "",
     edits |-> <<>>]

RetBytes(st, ret, out) ==
    [st |-> st, ret |-> ret, val |-> None, out |-> out, obj |-> "",
     edits |-> <<>>]

RetObject(st, obj) ==
    [st |-> st, ret |-> "ok", val |-> None, out |-> <<>>, obj |-> obj,
     edits |-> <<>>]

\* Mutant of strip_newlines: the newlines stay.
strip_newlines_kept(text) == text

\* re.sub('[\n]', '', text)
strip_newlines(text) == SelectSeq(text, LAMBDA c : c # NL)

\* Python truthiness of num_bytes
truthy(num_bytes) == num_bytes # None /\ num_bytes # 0

\* Mutant of read_strucutural_elements: the length is taken after the
\* newlines are removed.
read_strucutural_elements_stripped_len(raw, offset, num_bytes) ==
    LET text == strip_newlines(raw)
        total_content_len == Len(text)
        ints == string_to_ints(text)
    IN  IF ~bytes_ok(ints)
        THEN [ret |-> "ValueError", out |-> <<>>, total |-> total_content_len]
        ELSE LET byte_seq == string_to_bytes(text)
             IN  IF text # bytes_to_string(byte_seq)
                 THEN [ret |-> "AssertionError", out |-> <<>>,
                       total |-> total_content_len]
                 ELSE IF truthy(num_bytes)
                 THEN [ret |-> "ok",
                       out |-> slice(byte_seq, offset, offset + num_bytes),
                       total |-> total_content_len]
                 ELSE [ret |-> "ok", out |-> byte_seq,
                       total |-> total_content_len]

\* read_strucutural_elements on the paragraph's text: [ret, out, total]
read_strucutural_elements(raw, offset, num_bytes) ==
    LET total_content_len == Len(raw)
        text == strip_newlines(raw)
        ints == string_to_ints(text)
    IN  IF ~bytes_ok(ints)
        THEN [ret |-> "ValueError", out |-> <<>>, total |-> total_content_len]
        ELSE LET byte_seq == string_to_bytes(text)
             IN  IF text # bytes_to_string(byte_seq)
                 THEN [ret |-> "AssertionError", out |-> <<>>,
                       total |-> total_content_len]
                 ELSE IF truthy(num_bytes)
                 THEN [ret |-> "ok",
                       out |-> slice(byte_seq, offset, offset + num_bytes),
                       total |-> total_content_len]
                 ELSE [ret |-> "ok", out |-> byte_seq,
                       total |-> total_content_len]

\* read_doc(doc_id, offset, num_bytes): [ret, out, total]
read_doc(st, doc_id, offset, num_bytes) ==
    IF doc_id = None
    THEN [ret |-> "TypeError", out |-> <<>>, total |-> 0]
    ELSE IF doc_id \notin DOMAIN st.docs
    THEN [ret |-> "HttpError", out |-> <<>>, total |-> 0]
    ELSE read_strucutural_elements(st.docs[doc_id], offset, num_bytes)

has_empty_byte(byte_str) ==
    \E i \in 1..(Len(byte_str) - 1) : byte_str[i] = "," /\ byte_str[i + 1] = ","

\* Mutant of write_requests: the deletion is always made.
write_requests_always_delete(total_content_len, byte_str) ==
    <<[kind |-> "deleteContentRange", startIndex |-> WRITE_OFFSET,
       endIndex |-> total_content_len, index |-> None, text |-> <<>>]>>
    \o
    (IF byte_str # <<>>
     THEN <<[kind |-> "insertText", startIndex |-> None, endIndex |-> None,
             index |-> WRITE_OFFSET, text |-> byte_str]>>
     ELSE <<>>)

\* The requests write_doc puts into its batch
write_requests(total_content_len, byte_str) ==
    (IF total_content_len > 1
     THEN <<[kind |-> "deleteContentRange", startIndex |-> WRITE_OFFSET,
             endIndex |-> total_content_len, index |-> None, text |-> <<>>]>>
     ELSE <<>>)
    \o
    (IF byte_str # <<>>
     THEN <<[kind |-> "insertText", startIndex |-> None, endIndex |-> None,
             index |-> WRITE_OFFSET, text |-> byte_str]>>
     ELSE <<>>)

\* write_doc(doc_id, offset, content)
write_doc(st, doc_id, offset, content) ==
    LET r == read_doc(st, doc_id, 0, None)
    IN  IF r.ret # "ok" THEN Ret(st, r.ret, None)
        ELSE
        LET current_contents == r.out
            new_contents == slice(current_contents, 0, offset) \o content
                            \o slice_from(current_contents, offset)
            byte_str == bytes_to_string(new_contents)
            requests == write_requests(r.total, byte_str)
        IN  IF has_empty_byte(byte_str) THEN Ret(st, "AssertionError", None)
            ELSE IF requests = <<>> THEN Ret(st, "ok", None)
            ELSE [Ret([st EXCEPT !.docs[doc_id] = batchUpdate(@, requests)],
                      "ok", None)
                  EXCEPT !.edits = <<requests>>]

\* create_doc(title): returns the new document's id
create_doc(st) ==
    LET doc_id == st.ndocs + 1
    IN  Ret([st EXCEPT !.ndocs = doc_id,
                       !.docs = Put(@, doc_id, BlankDoc)],
            "ok", doc_id)

\* delete_doc(doc_id)
delete_doc(st, doc_id) ==
    IF doc_id \notin DOMAIN st.docs THEN Ret(st, "HttpError", None)
    ELSE Ret([st EXCEPT
                !.docs = Pop(@, doc_id),
                !.deleted = @ \cup {doc_id}],
             "ok", None)

(***************************************************************************)
(* Calls.                                                                  *)
(***************************************************************************)
\* The record of a call: its arguments (path; arg, the second path or the
\* symlink source; id, a document id; fh; off; len, a length; buf; text, an
\* encoded text) and its outcome.
NoCall ==
    [op |-> "init", path |-> <<>>, arg |-> <<>>, id |-> None, fh |-> None,
     off |-> None, len |-> None, buf |-> <<>>, text |-> <<>>,
     ret |-> "ok", val |-> None, out |-> <<>>, obj |-> "", edits |-> <<>>]

Outcome(call, r) ==
    [call EXCEPT !.ret = r.ret, !.val = r.val, !.out = r.out, !.obj = r.obj,
                 !.edits = r.edits]

Commit(st, call, n) ==
    /\ files' = st.files
    /\ path_dids' = st.path_dids
    /\ fd_dids' = st.fd_dids
    /\ data' = st.data
    /\ fd' = st.fd
    /\ docs' = st.docs
    /\ deleted' = st.deleted
    /\ ndocs' = st.ndocs
    /\ last' = call
    /\ calls' = n
    /\ writers' = writers

\* A write_doc call of a client, from its start to its end: pc is "idle"
\* before the call, "fetched" between its read_doc and its batchUpdate, and
\* "done" after it; cur and total are what its read_doc returned; fetched
\* and applied number the steps at which it read and at which it ended.
Writers == {1, 2}

Idle ==
    [pc |-> "idle", id |-> None, off |-> None, buf |-> <<>>, cur |-> <<>>,
     total |-> None, ret |-> "", fetched |-> None, applied |-> None]

\* The decoded content of a live document
Content(d, doc_id) == string_to_bytes(strip_newlines(d[doc_id]))

InitFd == 3

RootAttr == [kind |-> "dir", nlink |-> 2, size |-> None, subdirs |-> TRUE]

Init ==
    /\ files = Put(<< >>, Root, RootAttr)
    /\ path_dids = << >>
    /\ fd_dids = << >>
    /\ data = << >>
    /\ fd = InitFd
    /\ docs = << >>
    /\ deleted = {}
    /\ ndocs = 0
    /\ last = NoCall
    /\ calls = 0
    /\ writers = [w \in Writers |-> Idle]

(***************************************************************************)
(* The document store on its own: gdoc.write_doc and gdoc.read_doc called  *)
(* directly on one document, which gdoc.create_doc has just created.       *)
(***************************************************************************)
InitDoc ==
    /\ files = Put(<< >>, Root, RootAttr)
    /\ path_dids = << >>
    /\ fd_dids = << >>
    /\ data = << >>
    /\ fd = InitFd
    /\ ndocs = 1
    /\ docs = [doc_id \in {ndocs} |-> BlankDoc]
    /\ deleted = {}
    /\ last = [NoCall EXCEPT !.op = "create_doc", !.id = ndocs, !.val = ndocs]
    /\ calls = 0
    /\ writers = [w \in Writers |-> Idle]

WriteDoc(doc_id, offset, content) ==
    /\ Len(Content(docs, doc_id)) + Len(content) <= MaxLen
    /\ \E r \in {write_doc(State, doc_id, offset, content)} :
           Commit(r.st,
                  Outcome([NoCall EXCEPT !.op = "write_doc", !.id = doc_id,
                                         !.off = offset, !.buf = content], r),
                  calls)

ReadDoc(doc_id, offset, num_bytes) ==
    \E r \in {read_doc(State, doc_id, offset, num_bytes)} :
        Commit(State,
               [NoCall EXCEPT !.op = "read_doc", !.id = doc_id, !.off = offset,
                              !.len = num_bytes, !.ret = r.ret, !.out = r.out,
                              !.val = r.total],
               calls)

NextDoc ==
    \/ \E doc_id \in DOMAIN docs, offset \in 0..MaxOff, content \in Bufs :
          WriteDoc(doc_id, offset, content)
    \/ \E doc_id \in DOMAIN docs, offset \in 0..MaxOff,
          num_bytes \in (0..MaxOff) \cup {None} :
          ReadDoc(doc_id, offset, num_bytes)

SpecDoc == InitDoc /\ [][NextDoc]_vars

(***************************************************************************)
(* The codec on its own: a byte sequence is encoded by bytes_to_string, the *)
(* backend may break the text into lines, and read_strucutural_elements    *)
(* decodes what the paragraph then holds.                                  *)
(***************************************************************************)
CodecVals == {0, 9, 10, 255}
CodecBufs == SeqsUpTo(CodecVals, MaxBuf)

InitCodec ==
    /\ files = Put(<< >>, Root, RootAttr)
    /\ path_dids = << >>
    /\ fd_dids = << >>
    /\ data = << >>
    /\ fd = InitFd
    /\ docs = << >>
    /\ deleted = {}
    /\ ndocs = 0
    /\ last \in {[NoCall EXCEPT !.op = "bytes", !.buf = b] : b \in CodecBufs}
    /\ calls = 0
    /\ writers = [w \in Writers |-> Idle]

Encode ==
    /\ last.op = "bytes"
    /\ Commit(State,
              [last EXCEPT !.op = "bytes_to_string",
                           !.text = bytes_to_string(last.buf)],
              calls)

\* The backend puts a line break after the first i characters of the text
Wrap(i) ==
    /\ last.op \in {"bytes_to_string", "wrap"}
    /\ Len(SelectSeq(last.text, LAMBDA c : c = NL)) < MaxWraps
    /\ Commit(State,
              [last EXCEPT !.op = "wrap",
                           !.text = SubSeq(@, 1, i) \o <<NL>>
                                    \o SubSeq(@, i + 1, Len(@))],
              calls)

Decode ==
    /\ last.op \in {"bytes_to_string", "wrap"}
    /\ \E r \in {read_strucutural_elements(last.text, 0, None)} :
           Commit(State,
                  [last EXCEPT !.op = "read_strucutural_elements",
                               !.ret = r.ret, !.out = r.out, !.val = r.total],
                  calls)

NextCodec ==
    \/ Encode
    \/ \E i \in 0..Len(last.text) : Wrap(i)
    \/ Decode

SpecCodec == InitCodec /\ [][NextCodec]_vars

(***************************************************************************)
(* Two clients write one document at the same time.  write_doc is two      *)
(* backend calls, the documents().get of its read_doc and its batchUpdate, *)
(* and another client's calls may come between them.  Each client makes    *)
(* one write_doc call, of bytes that tell the clients apart, on a document *)
(* an earlier write_doc has filled.                                        *)
(***************************************************************************)
WriterVals(w) == IF w = 1 THEN {7} ELSE {9}

\* The program variables after construction, with no document yet
Fresh ==
    [files |-> Put(<< >>, Root, RootAttr), path_dids |-> << >>,
     fd_dids |-> << >>, data |-> << >>, fd |-> InitFd, docs |-> << >>,
     deleted |-> {}, ndocs |-> 0]

InitRace ==
    \E content \in Bufs :
        \E c \in {create_doc(Fresh)} :
            \E r \in {write_doc(c.st, c.val, 0, content)} :
                /\ files = r.st.files
                /\ path_dids = r.st.path_dids
                /\ fd_dids = r.st.fd_dids
                /\ data = r.st.data
                /\ fd = r.st.fd
                /\ docs = r.st.docs
                /\ deleted = r.st.deleted
                /\ ndocs = r.st.ndocs
                /\ last = Outcome([NoCall EXCEPT !.op = "write_doc",
                                                 !.id = c.val, !.off = 0,
                                                 !.buf = content], r)
                /\ calls = 0
                /\ writers = [w \in Writers |-> Idle]

\* write_doc up to the return of its read_doc
Fetch(w, doc_id, offset, content) ==
    /\ writers[w].pc = "idle"
    /\ \E r \in {read_doc(State, doc_id, 0, None)} :
           writers' = [writers EXCEPT ![w] =
               [pc |-> IF r.ret = "ok" THEN "fetched" ELSE "done",
                id |-> doc_id, off |-> offset, buf |-> content,
                cur |-> r.out, total |-> r.total,
                ret |-> IF r.ret = "ok" THEN "" ELSE r.ret,
                fetched |-> calls + 1,
                applied |-> IF r.ret = "ok" THEN None ELSE calls + 1]]
    /\ calls' = calls + 1
    /\ UNCHANGED <<files, path_dids, fd_dids, data, fd, docs, deleted, ndocs,
                   last>>

\* write_doc from the return of its read_doc to its end
Apply(w) ==
    /\ writers[w].pc = "fetched"
    /\ LET doc_id == writers[w].id
           offset == writers[w].off
           content == writers[w].buf
           current_contents == writers[w].cur
           new_contents == slice(current_contents, 0, offset) \o content
                           \o slice_from(current_contents, offset)
           byte_str == bytes_to_string(new_contents)
           requests == write_requests(writers[w].total, byte_str)
           call == [NoCall EXCEPT !.op = "write_doc", !.id = doc_id,
                                  !.off = offset, !.buf = content]
       IN  IF has_empty_byte(byte_str)
           THEN /\ docs' = docs
                /\ last' = [call EXCEPT !.ret = "AssertionError"]
                /\ writers' = [writers EXCEPT
                                 ![w].pc = "done",
                                 ![w].ret = "AssertionError",
                                 ![w].applied = calls + 1]
           ELSE /\ docs' = IF requests = <<>> THEN docs
                           ELSE [docs EXCEPT
                                   ![doc_id] = batchUpdate(@, requests)]
                /\ last' = [call EXCEPT
                              !.edits = IF requests = <<>> THEN <<>>
                                        ELSE <<requests>>]
                /\ writers' = [writers EXCEPT
                                 ![w].pc = "done",
                                 ![w].ret = "ok",
                                 ![w].applied = calls + 1]
    /\ calls' = calls + 1
    /\ UNCHANGED <<files, path_dids, fd_dids, data, fd, deleted, ndocs>>

NextRace ==
    \/ \E w \in Writers, doc_id \in DOMAIN docs, offset \in 0..MaxOff :
          \E content \in SeqsUpTo(WriterVals(w), MaxBuf) :
              Fetch(w, doc_id, offset, content)
    \/ \E w \in Writers : Apply(w)

SpecRace == InitRace /\ [][NextRace]_vars

(***************************************************************************)
(* gdocsfs.py: the path tree.  The mode argument of mkdir and create only  *)
(* fills the permission bits of st_mode, and the st_*time attributes only  *)
(* record the clock; neither is read by any operation, and they are left   *)
(* out.  kind is the file type held in st_mode.                            *)
(***************************************************************************)
Parent(path) == SubSeq(path, 1, Len(path) - 1)

\* q lies strictly below p
IsUnder(q, p) == Len(q) > Len(p) /\ SubSeq(q, 1, Len(p)) = p

\* The keys of the 'subdirs' dict of the node at p
Children(f, p) == {q \in DOMAIN f : Len(q) = Len(p) + 1 /\ IsUnder(q, p)}

\* dict.pop(name) on the parent's 'subdirs': the node goes with all below it
Detach(f, p) == [q \in {x \in DOMAIN f : x # p /\ ~IsUnder(x, p)} |-> f[q]]

\* _gen_dict(mode)
gen_dict == [kind |-> "dir", nlink |-> 2, size |-> 0, subdirs |-> TRUE]

\* The dict create() builds for a file: it has no 'subdirs' key
new_file == [kind |-> "reg", nlink |-> 1, size |-> 0, subdirs |-> FALSE]

\* _get_file_dict(path, self.files): "ok" when it returns the node at path;
\* i is the component being looked up
RECURSIVE get_file_dict(_, _, _)
get_file_dict(f, path, i) ==
    IF i > Len(path) THEN "ok"
    ELSE IF SubSeq(path, 1, i) \notin DOMAIN f THEN "ENOENT"
    ELSE IF i = Len(path) THEN "ok"
    ELSE IF ~f[SubSeq(path, 1, i)].subdirs THEN "KeyError"
    ELSE get_file_dict(f, path, i + 1)

\* The keys of the dict rmdir hands to _update_nlinks: self.files itself,
\* whose one key is '/'
TopKeys == {"/"}

\* _update_nlinks(path, self.files, delta).  It looks the first component
\* up (the first character of the path, when the path has several
\* components) among TopKeys; no component is "/".
update_nlinks(f, path, delta) ==
    IF path = <<>> THEN [files |-> f, err |-> "ok"]
    ELSE IF path[1] \notin TopKeys THEN [files |-> f, err |-> "ENOENT"]
    ELSE [files |-> [f EXCEPT ![Root].nlink = @ + delta], err |-> "ok"]

\* _mkdir_helper(path, files, mode): [files, err]; i is the component at hand.
\* The dicts are changed in place, so what was done stays done when a
\* KeyError ends the call.
RECURSIVE mkdir_helper(_, _, _)
mkdir_helper(f, path, i) ==
    IF i > Len(path) THEN [files |-> f, err |-> "ok"]
    ELSE LET q == SubSeq(path, 1, i)
             f1 == IF q \notin DOMAIN f THEN Put(f, q, gen_dict)
                   ELSE [f EXCEPT ![q].nlink = @ + 1]
         IN  IF i = Len(path) THEN [files |-> f1, err |-> "ok"]
             ELSE IF ~f1[q].subdirs THEN [files |-> f1, err |-> "KeyError"]
             ELSE mkdir_helper(f1, path, i + 1)

(***************************************************************************)
(* gdocsfs.py: the filesystem methods.  Each returns the state it leaves   *)
(* and its outcome: "ok" or the exception it raises, and its return value. *)
(***************************************************************************)
\* GDocsFS.mkdir(path, mode)
mkdir(st, path) ==
    LET h == mkdir_helper(st.files, path, 1)
    IN  IF h.err # "ok" THEN Ret([st EXCEPT !.files = h.files], h.err, None)
        ELSE Ret([st EXCEPT !.files = [h.files EXCEPT ![Root].nlink = @ + 1]],
                 "ok", None)

\* GDocsFS.rmdir(path)
rmdir(st, path) ==
    LET f == st.files
        g == get_file_dict(f, path, 1)
    IN  IF g # "ok" THEN Ret(st, g, None)
        ELSE IF ~f[path].subdirs THEN Ret(st, "KeyError", None)
        ELSE IF Children(f, path) # {} THEN Ret(st, "ENOTEMPTY", None)
        ELSE LET path_minus_one == Parent(path)
                 f1 == Detach(f, path)
                 f2 == [f1 EXCEPT ![Root].nlink = @ - 1]
                 u == update_nlinks(f2, path_minus_one, -1)
             IN  Ret([st EXCEPT !.files = u.files], u.err, None)

\* GDocsFS.unlink(path)
unlink(st, path) ==
    LET st1 == [st EXCEPT !.data = Pop(@, path)]
        f == st.files
        lost == \E i \in 1..(Len(path) - 1) :
                    \/ SubSeq(path, 1, i) \notin DOMAIN f
                    \/ ~f[SubSeq(path, 1, i)].subdirs
    IN  IF lost THEN Ret(st1, "KeyError", None)
        ELSE LET st2 == [st1 EXCEPT !.files = Detach(f, path)]
             IN  IF path \in DOMAIN st.path_dids
                 THEN delete_doc(st2, st.path_dids[path])
                 ELSE Ret(st2, "ok", None)

\* GDocsFS.symlink(target, source)
symlink(st, target, source) ==
    LET m == mkdir(st, target)
    IN  IF m.ret # "ok" THEN m
        ELSE LET g == get_file_dict(m.st.files, target, 1)
             IN  IF g # "ok" THEN Ret(m.st, g, None)
                 ELSE Ret([m.st EXCEPT
                             !.files[target] = [kind |-> "lnk", nlink |-> 1,
                                                size |-> Len(source),
                                                subdirs |-> @.subdirs],
                             !.data = Put(@, target, source)],
                          "ok", None)

\* GDocsFS.rename(old, new): self.files has the one key '/', which is never
\* the old path of a rename
rename(st, old, new) ==
    IF old \in DOMAIN st.data
    THEN Ret([st EXCEPT !.data = Put(Pop(@, old), new, st.data[old])],
             "ok", None)
    ELSE Ret(st, "ok", None)

\* Mutant of open: the descriptor counter is not advanced.
open_same_fd(st, path) ==
    IF path \notin DOMAIN st.path_dids THEN Ret(st, "KeyError", None)
    ELSE Ret([st EXCEPT !.fd_dids = Put(@, st.fd, st.path_dids[path])],
             "ok", st.fd)

\* GDocsFS.open(path, flags)
open(st, path) ==
    LET st1 == [st EXCEPT !.fd = @ + 1]
    IN  IF path \notin DOMAIN st.path_dids THEN Ret(st1, "KeyError", None)
        ELSE Ret([st1 EXCEPT !.fd_dids = Put(@, st1.fd, st.path_dids[path])],
                 "ok", st1.fd)

\* GDocsFS.create(path, mode)
create(st, path) ==
    LET c == create_doc(st)
        doc_id == c.val
        st1 == [c.st EXCEPT !.path_dids = Put(@, path, doc_id)]
        path_minus_one == Parent(path)
        h == mkdir_helper(st1.files, path_minus_one, 1)
        st2 == [st1 EXCEPT !.files = h.files]
    IN  IF h.err # "ok" THEN Ret(st2, h.err, None)
        ELSE LET g == get_file_dict(h.files, path_minus_one, 1)
             IN  IF g # "ok" THEN Ret(st2, g, None)
                 ELSE IF ~h.files[path_minus_one].subdirs
                 THEN Ret(st2, "KeyError", None)
                 ELSE Ret([st2 EXCEPT
                             !.files = Put(Detach(@, path), path, new_file),
                             !.fd = @ + 1,
                             !.fd_dids = Put(@, st2.fd + 1, doc_id)],
                          "ok", st2.fd + 1)

\* GDocsFS.read(path, length, offset, fh): an unknown fh gets the error
\* object as the return value, not as an exception
read(st, path, length, offset, fh) ==
    IF fh \notin DOMAIN st.fd_dids THEN RetObject(st, "FuseOSError(EBADF)")
    ELSE LET r == read_doc(st, st.fd_dids[fh], offset, length)
         IN  RetBytes(st, r.ret, r.out)

\* GDocsFS.write(path, buf, offset, fh)
write(st, path, buf, offset, fh) ==
    IF fh \notin DOMAIN st.fd_dids THEN RetObject(st, "FuseOSError(EBADF)")
    ELSE LET w == write_doc(st, st.fd_dids[fh], offset, buf)
         IN  IF w.ret # "ok" THEN w
             ELSE LET g == get_file_dict(w.st.files, path, 1)
                  IN  IF g # "ok"
                      THEN [Ret(w.st, g, None) EXCEPT !.edits = w.edits]
                      ELSE [Ret([w.st EXCEPT
                                   !.files[path].size = @ + Len(buf)],
                                "ok", Len(buf))
                            EXCEPT !.edits = w.edits]

\* GDocsFS.truncate(path, length)
truncate(st, path, length) ==
    IF path \notin DOMAIN st.path_dids THEN Ret(st, "KeyError", None)
    ELSE LET doc_id == st.path_dids[path]
             r == read_doc(st, doc_id, 0, None)
         IN  IF r.ret # "ok" THEN Ret(st, r.ret, None)
             ELSE LET new_content == ljust(r.out, length, 0)
                      w == write_doc(st, doc_id, 0, new_content)
                  IN  IF w.ret # "ok" THEN w
                      ELSE LET g == get_file_dict(w.st.files, path, 1)
                           IN  IF g # "ok"
                               THEN [Ret(w.st, g, None)
                                     EXCEPT !.edits = w.edits]
                               ELSE [Ret([w.st EXCEPT
                                            !.files[path].size = length],
                                         "ok", None)
                                     EXCEPT !.edits = w.edits]

\* GDocsFS.release(path, fh)
release(st, path, fh) ==
    Ret([st EXCEPT !.fd_dids = Put(@, fh, None)], "ok", None)

(***************************************************************************)
(* The calls the kernel makes, one at a time (nothreads=True).             *)
(***************************************************************************)
Sources == {<<"/", "a">>}

\* The kernel passes the path a handle was opened on; a handle that is
\* released or was never handed out may come with any path.
HandleOf(path, fh) ==
    IF fh \notin DOMAIN fd_dids THEN TRUE
    ELSE IF fd_dids[fh] = None THEN TRUE
    ELSE path \in DOMAIN path_dids /\ path_dids[path] = fd_dids[fh]

Handles == (InitFd + 1)..(fd + 1)

Mkdir(path) ==
    /\ calls < MaxCalls
    /\ \E r \in {mkdir(State, path)} :
           Commit(r.st,
                  Outcome([NoCall EXCEPT !.op = "mkdir", !.path = path], r),
                  calls + 1)

Rmdir(path) ==
    /\ calls < MaxCalls
    /\ \E r \in {rmdir(State, path)} :
           Commit(r.st,
                  Outcome([NoCall EXCEPT !.op = "rmdir", !.path = path], r),
                  calls + 1)

Unlink(path) ==
    /\ calls < MaxCalls
    /\ \E r \in {unlink(State, path)} :
           Commit(r.st,
                  Outcome([NoCall EXCEPT !.op = "unlink", !.path = path], r),
                  calls + 1)

Symlink(target, source) ==
    /\ calls < MaxCalls
    /\ \E r \in {symlink(State, target, source)} :
           Commit(r.st,
                  Outcome([NoCall EXCEPT !.op = "symlink", !.path = target,
                                         !.arg = source], r),
                  calls + 1)

Rename(old, new) ==
    /\ calls < MaxCalls
    /\ \E r \in {rename(State, old, new)} :
           Commit(r.st,
                  Outcome([NoCall EXCEPT !.op = "rename", !.path = old,
                                         !.arg = new], r),
                  calls + 1)

Open(path) ==
    /\ calls < MaxCalls
    /\ \E r \in {open(State, path)} :
           Commit(r.st,
                  Outcome([NoCall EXCEPT !.op = "open", !.path = path], r),
                  calls + 1)

Create(path) ==
    /\ calls < MaxCalls
    /\ \E r \in {create(State, path)} :
           Commit(r.st,
                  Outcome([NoCall EXCEPT !.op = "create", !.path = path], r),
                  calls + 1)

Read(path, length, offset, fh) ==
    /\ calls < MaxCalls
    /\ HandleOf(path, fh)
    /\ \E r \in {read(State, path, length, offset, fh)} :
           Commit(r.st,
                  Outcome([NoCall EXCEPT !.op = "read", !.path = path,
                                         !.fh = fh, !.off = offset,
                                         !.len = length], r),
                  calls + 1)

Write(path, buf, offset, fh) ==
    /\ calls < MaxCalls
    /\ HandleOf(path, fh)
    /\ \E r \in {write(State, path, buf, offset, fh)} :
           Commit(r.st,
                  Outcome([NoCall EXCEPT !.op = "write", !.path = path,
                                         !.fh = fh, !.off = offset,
                                         !.buf = buf], r),
                  calls + 1)

Truncate(path, length) ==
    /\ calls < MaxCalls
    /\ \E r \in {truncate(State, path, length)} :
           Commit(r.st,
                  Outcome([NoCall EXCEPT !.op = "truncate", !.path = path,
                                         !.len = length], r),
                  calls + 1)

Release(path, fh) ==
    /\ calls < MaxCalls
    /\ HandleOf(path, fh)
    /\ \E r \in {release(State, path, fh)} :
           Commit(r.st,
                  Outcome([NoCall EXCEPT !.op = "release", !.path = path,
                                         !.fh = fh], r),
                  calls + 1)

\* The namespace: directories, files, symlinks and handles on them.
Next ==
    \/ \E path \in Paths : Mkdir(path)
    \/ \E path \in Paths : Rmdir(path)
    \/ \E path \in Paths : Create(path)
    \/ \E path \in Paths : Unlink(path)
    \/ \E path \in Paths, source \in Sources : Symlink(path, source)
    \/ \E old \in Paths, new \in Paths : Rename(old, new)
    \/ \E path \in Paths : Open(path)

Spec == Init /\ [][Next]_vars

\* File I/O on one path.
IOPaths == {<<"a">>}

NextIO ==
    \/ \E path \in IOPaths : Create(path)
    \/ \E path \in IOPaths : Open(path)
    \/ \E path \in IOPaths, buf \in Bufs, offset \in 0..MaxOff, fh \in Handles :
          Write(path, buf, offset, fh)
    \/ \E path \in IOPaths, length \in 0..MaxOff, offset \in 0..MaxOff,
          fh \in Handles : Read(path, length, offset, fh)
    \/ \E path \in IOPaths, length \in 0..MaxOff : Truncate(path, length)
    \/ \E path \in IOPaths, fh \in Handles : Release(path, fh)
    \/ \E path \in IOPaths : Unlink(path)

SpecIO == Init /\ [][NextIO]_vars

\* Handles on two paths: open, create and release.
HandlePaths == {<<"a">>, <<"b">>}

NextHandles ==
    \/ \E path \in HandlePaths : Create(path)
    \/ \E path \in HandlePaths : Open(path)
    \/ \E path \in HandlePaths, fh \in Handles : Release(path, fh)

SpecHandles == Init /\ [][NextHandles]_vars

(***************************************************************************)
(* Properties.                                                             *)
(***************************************************************************)
DirChildren(f, p) == {q \in Children(f, p) : f[q].kind = "dir"}

\* Every component of path exists and is a directory
ExistsAsDirs(f, path) ==
    \A i \in 1..Len(path) :
        SubSeq(path, 1, i) \in DOMAIN f /\ f[SubSeq(path, 1, i)].kind = "dir"

\* POSIX pwrite on a byte sequence: overwrite in place, zero-fill a gap
PosixWrite(B, offset, buf) ==
    [i \in 1..Max(Len(B), offset + Len(buf)) |->
        IF i > offset /\ i <= offset + Len(buf) THEN buf[i - offset]
        ELSE IF i <= Len(B) THEN B[i]
        ELSE 0]

\* POSIX truncate on a byte sequence: cut, or zero-fill
PosixTruncate(B, length) ==
    [i \in 1..length |-> IF i <= Len(B) THEN B[i] ELSE 0]

\* Number of characters of a document's text that holds the bytes B: the
\* decimal digits of each byte and one delimiter each, then the newline
RECURSIVE TextLen(_)
TextLen(B) ==
    IF B = <<>> THEN 1
    ELSE (IF Head(B) < 10 THEN 1 ELSE IF Head(B) < 100 THEN 2 ELSE 3) + 1
         + TextLen(Tail(B))

\* The path holds a file whose backing document is live
IsLiveFile(f, pd, d, path) ==
    /\ path \in DOMAIN f
    /\ f[path].kind = "reg"
    /\ path \in DOMAIN pd
    /\ pd[path] \in DOMAIN d

\* C1: in every reachable state every directory, the root included, has
\* link count 2 plus the number of its direct children that are directories.
C1_LinkCountIsDerived ==
    \A p \in DOMAIN files :
        files[p].kind = "dir" =>
            files[p].nlink = 2 + Cardinality(DirChildren(files, p))

\* C2: mkdir on a path whose components all exist as directories leaves the
\* tree, link counts included, exactly as it was.
C2_MkdirIdempotent ==
    [][(last'.op = "mkdir" /\ ExistsAsDirs(files, last'.path))
          => files' = files]_vars

\* C3: a write_doc of data that ends within the current content overwrites in
\* place: same length, the range holds the data, the rest is unchanged.
C3_WriteOverwritesInPlace ==
    [][(/\ last'.op = "write_doc"
        /\ Len(last'.buf) > 0
        /\ last'.off + Len(last'.buf) <= Len(Content(docs, last'.id)))
          => /\ last'.ret = "ok"
             /\ Content(docs', last'.id)
                  = PosixWrite(Content(docs, last'.id), last'.off, last'.buf)
             /\ Len(Content(docs', last'.id))
                  = Len(Content(docs, last'.id))]_vars

\* C4: a write_doc at an offset beyond the current length L extends the
\* content to offset + len(data), with zero bytes in [L, offset).
C4_WriteBeyondEndZeroPads ==
    [][(/\ last'.op = "write_doc"
        /\ Len(last'.buf) > 0
        /\ last'.off > Len(Content(docs, last'.id)))
          => /\ last'.ret = "ok"
             /\ Content(docs', last'.id)
                  = PosixWrite(Content(docs, last'.id), last'.off, last'.buf)
             /\ Len(Content(docs', last'.id)) = last'.off + Len(last'.buf)]_vars

C6_ReadReturnsSlice ==
    last.op = "read_doc" =>
        /\ last.ret = "ok"
        /\ last.out = IF last.len = None
                      THEN slice_from(Content(docs, last.id), last.off)
                      ELSE slice(Content(docs, last.id), last.off,
                                 last.off + last.len)

\* C7: truncate(path, n) on a file holding B leaves the document holding
\* B[0:n], or B followed by zero bytes up to length n.
C7_TruncateSetsLength ==
    [][(/\ last'.op = "truncate"
        /\ IsLiveFile(files, path_dids, docs, last'.path))
          => /\ last'.ret = "ok"
             /\ Content(docs', path_dids[last'.path])
                  = PosixTruncate(Content(docs, path_dids[last'.path]),
                                  last'.len)]_vars

\* C8: the st_size of every file equals the number of bytes its backing
\* document decodes to.
C8_SizeMatchesContent ==
    \A path \in DOMAIN files :
        IsLiveFile(files, path_dids, docs, path) =>
            files[path].size = Len(Content(docs, path_dids[path]))

\* C9: unlink of a file removes its node and deletes its document, and
\* every open of the path after that, until a new create, fails with ENOENT
\* and binds no handle.
C9_OpenAfterUnlinkFails ==
    [][/\ (/\ last'.op = "unlink"
           /\ IsLiveFile(files, path_dids, docs, last'.path))
             => /\ last'.ret = "ok"
                /\ last'.path \notin DOMAIN files'
                /\ deleted' = deleted \cup {path_dids[last'.path]}
                /\ path_dids[last'.path] \notin deleted
       /\ (/\ last'.op = "open"
           /\ last'.path \in DOMAIN path_dids
           /\ path_dids[last'.path] \in deleted)
             => /\ last'.ret = "ENOENT"
                /\ fd_dids' = fd_dids]_vars

\* C10: rmdir of a directory with a child fails with ENOTEMPTY; rmdir of an
\* empty directory at any depth succeeds, detaches it and lowers its
\* parent's link count by exactly one.
C10_RmdirEmptySucceeds ==
    [][(/\ last'.op = "rmdir"
        /\ ExistsAsDirs(files, last'.path))
          => IF Children(files, last'.path) # {}
             THEN last'.ret = "ENOTEMPTY"
             ELSE /\ last'.ret = "ok"
                  /\ last'.path \notin DOMAIN files'
                  /\ files'[Parent(last'.path)].nlink
                       = files[Parent(last'.path)].nlink - 1]_vars

\* The path q, which lies at or below old, after old is moved to new
Moved(q, old, new) == new \o SubSeq(q, Len(old) + 1, Len(q))

\* C11: rename(old, new) with old present and new unoccupied (under an
\* existing directory, outside old) moves the node at old and everything
\* below it to new: old no longer resolves, every node is found unchanged
\* under new, and a file keeps its backing document at its new path.
C11_RenameRelocatesSubtree ==
    [][(/\ last'.op = "rename"
        /\ last'.path \in DOMAIN files
        /\ last'.arg \notin DOMAIN files
        /\ ExistsAsDirs(files, Parent(last'.arg))
        /\ last'.arg # last'.path
        /\ ~IsUnder(last'.arg, last'.path))
          => /\ last'.ret = "ok"
             /\ get_file_dict(files', last'.path, 1) = "ENOENT"
             /\ \A q \in DOMAIN files :
                    (q = last'.path \/ IsUnder(q, last'.path)) =>
                        /\ Moved(q, last'.path, last'.arg) \in DOMAIN files'
                        /\ files'[Moved(q, last'.path, last'.arg)] = files[q]
                        /\ IsLiveFile(files, path_dids, docs, q) =>
                             /\ Moved(q, last'.path, last'.arg)
                                  \in DOMAIN path_dids'
                             /\ path_dids'[Moved(q, last'.path, last'.arg)]
                                  = path_dids[q]]_vars

\* C15: create on a path where a node exists fails with EEXIST: no document
\* is created, the tree and the path bindings are unchanged, and no handle is
\* allocated.
C15_CreateExistingFails ==
    [][(/\ last'.op = "create"
        /\ last'.path \in DOMAIN files)
          => /\ last'.ret = "EEXIST"
             /\ ndocs' = ndocs
             /\ docs' = docs
             /\ files' = files
             /\ path_dids' = path_dids
             /\ fd_dids' = fd_dids]_vars

\* The proper prefixes of path that exist and are files or symlinks
NonDirComponents(f, path) ==
    {q \in DOMAIN f : /\ IsUnder(path, q)
                      /\ q # Root
                      /\ f[q].kind \in {"reg", "lnk"}}

\* C16: mkdir or create on a path with a proper component that is a file or
\* a symlink fails with ENOTDIR and leaves that node's attributes unchanged.
C16_NonDirComponentFails ==
    [][(/\ last'.op \in {"mkdir", "create"}
        /\ NonDirComponents(files, last'.path) # {})
          => /\ last'.ret = "ENOTDIR"
             /\ \A q \in NonDirComponents(files, last'.path) :
                    q \in DOMAIN files' /\ files'[q] = files[q]]_vars

\* The file nodes of the tree
FileNodes(f) == {p \in DOMAIN f : f[p].kind = "reg"}

\* C17: the live documents correspond one to one to the file nodes: every
\* file node is bound to a live document, no two to the same one, every live
\* document is bound to a file node, and no path is bound to a deleted one.
C17_DocsMatchFileNodes ==
    /\ \A p \in FileNodes(files) :
           p \in DOMAIN path_dids /\ path_dids[p] \in DOMAIN docs
    /\ \A p \in FileNodes(files), q \in FileNodes(files) :
           (p # q /\ p \in DOMAIN path_dids /\ q \in DOMAIN path_dids)
               => path_dids[p] # path_dids[q]
    /\ \A d \in DOMAIN docs :
           \E p \in FileNodes(files) :
               p \in DOMAIN path_dids /\ path_dids[p] = d
    /\ \A p \in DOMAIN path_dids : path_dids[p] \notin deleted

\* The handles that are open: bound to a document, not released
LiveHandles(fds) == {h \in DOMAIN fds : fds[h] # None}

\* C12: the descriptor counter never goes back, and every id that open or
\* create returns is the counter's new value, above the counter's old value
\* and above every open handle: ids are handed out in increasing order and
\* never twice, across opens (failed ones too), creates and releases.
C12_HandleIdsIncrease ==
    [][/\ fd' >= fd
       /\ \A h \in LiveHandles(fd_dids) : h <= fd
       /\ (last'.op \in {"open", "create"} /\ last'.ret = "ok")
            => /\ last'.val = fd'
               /\ last'.val > fd
               /\ last'.val \notin LiveHandles(fd_dids)
               /\ last'.val \in LiveHandles(fd_dids')]_vars

\* C12 witness: an open returns an id after a failed open used one up and
\* after an earlier handle was released.
C12_Witness ==
    /\ last.op = "open"
    /\ last.ret = "ok"
    /\ \E h \in DOMAIN fd_dids : fd_dids[h] = None /\ h < last.val
    /\ last.val > InitFd + Cardinality(DOMAIN fd_dids)

\* C13: release of an open handle removes its entry from the handle table,
\* and a read or write on a handle that is not open (released, or never
\* handed out) fails with EBADF and changes no document.
C13_ReleaseClosesHandle ==
    [][/\ (last'.op = "release" /\ last'.fh \in LiveHandles(fd_dids))
            => last'.fh \notin DOMAIN fd_dids'
       /\ (last'.op \in {"read", "write"}
           /\ last'.fh \notin LiveHandles(fd_dids))
            => /\ last'.ret = "EBADF"
               /\ last'.edits = <<>>
               /\ docs' = docs]_vars

\* C14: decoding the encoding of a byte sequence gives the sequence back,
\* the empty one and those with zero bytes included, also when line breaks
\* (newline characters) were put anywhere into the encoded text.
C14_DecodeInvertsEncode ==
    last.op = "read_strucutural_elements" =>
        /\ last.ret = "ok"
        /\ last.out = last.buf

\* C14 witness: a sequence with a zero byte and a three-digit byte is
\* decoded from a text that was broken inside a token and after a delimiter.
C14_Witness ==
    /\ last.op = "read_strucutural_elements"
    /\ last.buf = <<0, 255>>
    /\ last.text = <<"0", ",", NL, "2", NL, "5", "5", ",">>
    /\ last.out = last.buf

\* The byte sequence write_doc builds from the content B
Spliced(B, offset, buf) ==
    SubSeq(B, 1, Min(offset, Len(B))) \o buf
    \o SubSeq(B, Min(offset, Len(B)) + 1, Len(B))

\* All requests of the edits of a call, in order
RECURSIVE Requests(_)
Requests(edits) ==
    IF edits = <<>> THEN <<>> ELSE Head(edits) \o Requests(Tail(edits))

\* C18: a write_doc makes at most one batched edit.  It holds a deletion,
\* of the whole current text (index 1 up to the final newline), exactly when
\* the document is not empty, then an insertion, at index 1, exactly when the
\* new encoded text is not empty; afterwards the document's text is the
\* encoding of the new byte sequence (and the paragraph's newline), with
\* nothing left of the old text.
C18_WriteIsOneReplace ==
    [][(last'.op = "write_doc")
          => \A old \in {docs[last'.id]} :
             \A new \in {bytes_to_string(
                             Spliced(Content(docs, last'.id), last'.off,
                                     last'.buf))} :
             \A reqs \in {Requests(last'.edits)} :
             \A dels \in {SelectSeq(reqs,
                              LAMBDA r : r.kind = "deleteContentRange")} :
             \A inss \in {SelectSeq(reqs, LAMBDA r : r.kind = "insertText")} :
                 /\ last'.ret = "ok"
                 /\ Len(last'.edits) <= 1
                 /\ Len(dels) = (IF Len(old) > 1 THEN 1 ELSE 0)
                 /\ Len(inss) = (IF new # <<>> THEN 1 ELSE 0)
                 /\ Len(reqs) = Len(dels) + Len(inss)
                 /\ \A i \in 1..Len(dels) :
                        /\ dels[i].startIndex = 1
                        /\ dels[i].endIndex = Len(old)
                        /\ reqs[1] = dels[i]
                 /\ \A i \in 1..Len(inss) :
                        /\ inss[i].index = 1
                        /\ inss[i].text = new
                 /\ docs'[last'.id] = new \o <<NL>>]_vars

\* C18 witness: a write of some bytes to a document that held some made one
\* edit of a deletion and an insertion.
C18_Witness ==
    /\ last.op = "write_doc"
    /\ last.buf # <<>>
    /\ Len(last.edits) = 1
    /\ Len(last.edits[1]) = 2
    /\ Len(Content(docs, last.id)) > Len(last.buf)

\* Client a's and client b's write_doc calls overlapped: both had read the
\* document before either changed it, and a changed it first.
Overlapped(a, b) ==
    /\ a # b
    /\ writers[a].pc = "done"
    /\ writers[b].pc = "done"
    /\ writers[a].fetched < writers[a].applied
    /\ writers[b].fetched < writers[a].applied
    /\ writers[a].applied < writers[b].applied

\* C19: when two write_doc calls on one document overlap, both return
\* without an error, and the document ends up holding the second client's
\* replacement text followed by what its deletion, whose range was measured
\* on the text both had read, left of the first client's text; the first
\* client's data need not be in it.
C19_OverlappedWritesBothSucceed ==
    \A a \in Writers, b \in Writers :
        Overlapped(a, b) =>
            LET A == writers[a]
                B == writers[b]
                textA == bytes_to_string(Spliced(A.cur, A.off, A.buf))
                         \o <<NL>>
                textB == bytes_to_string(Spliced(B.cur, B.off, B.buf))
            IN  /\ A.ret = "ok"
                /\ B.ret = "ok"
                /\ A.cur = B.cur
                /\ docs[B.id] = textB \o SubSeq(textA, B.total, Len(textA))

\* C19 witness: two overlapped writes of some bytes each have returned
\* without an error, and the document, which decodes without an error, holds
\* the second client's bytes and none of the first client's.
C19_Witness ==
    \E a \in Writers, b \in Writers :
        /\ Overlapped(a, b)
        /\ writers[a].ret = "ok"
        /\ writers[b].ret = "ok"
        /\ writers[a].buf # <<>>
        /\ writers[b].buf # <<>>
        /\ read_doc(State, writers[b].id, 0, None).ret = "ok"
        /\ LET content == Content(docs, writers[b].id)
           IN  /\ \A i \in 1..Len(content) : content[i] \notin WriterVals(a)
               /\ \E i \in 1..Len(content) : content[i] \in WriterVals(b)
               /\ Len(content) > Len(writers[b].buf)

\* C20: the text bytes_to_string makes of the byte sequence a write_doc
\* builds, which is the text of the insertion it sends, never has two
\* delimiters in a row: it is one non-empty token and one delimiter for each
\* byte, the token of a zero byte is "0", and the assertion of write_doc does
\* not fail.
C20_NoEmptyTokens ==
    [][(last'.op = "write_doc")
          => \A new \in {Spliced(Content(docs, last'.id), last'.off,
                                 last'.buf)} :
             \A text \in {bytes_to_string(new)} :
             \A toks \in {split(text, ",")} :
             \A inss \in {SelectSeq(Requests(last'.edits),
                                    LAMBDA r : r.kind = "insertText")} :
                 /\ last'.ret # "AssertionError"
                 /\ \A i \in 1..(Len(text) - 1) :
                        ~(text[i] = "," /\ text[i + 1] = ",")
                 /\ Len(toks) = Len(new) + 1
                 /\ toks[Len(toks)] = <<>>
                 /\ \A i \in 1..Len(new) :
                        /\ toks[i] # <<>>
                        /\ new[i] = 0 => toks[i] = <<"0">>
                 /\ \A i \in 1..Len(inss) : inss[i].text = text]_vars

\* C20 witness: a write of two zero bytes at the start of a document sent an
\* insertion whose text starts with two "0" tokens.
C20_Witness ==
    /\ last.op = "write_doc"
    /\ last.ret = "ok"
    /\ last.off = 0
    /\ last.buf = <<0, 0>>
    /\ \E i \in 1..Len(Requests(last.edits)) :
           /\ Requests(last.edits)[i].kind = "insertText"
           /\ SubSeq(Requests(last.edits)[i].text, 1, 4)
                = <<"0", ",", "0", ",">>

\* C21: an rmdir that raises ENOTEMPTY or ENOENT leaves the tree as it was:
\* no directory is detached and no link count is changed.
C21_FailedRmdirChangesNothing ==
    [][(/\ last'.op = "rmdir"
        /\ last'.ret \in {"ENOTEMPTY", "ENOENT"})
          => files' = files]_vars

====
